---- MODULE Spec2Model ----
(***************************************************************************)
(* State-machine model of the ESP32-S3 lab room controller firmware        *)
(* (src/firmware/sic_final_firmware/sic_final_firmware.ino): sensorTask    *)
(* and mqttTask, the SensorData block they share under sensorDataMutex,    *)
(* the command path mqttCallback -> handleCommand -> setFanPWM and the     *)
(* telemetry encoding.                                                     *)
(*                                                                         *)
(* Representation.  Every C float is a fixed-point integer in hundredths   *)
(* (Scale = 100): 23.46 is 2346.  A published telemetry number, which the  *)
(* firmware rounds to one decimal, is an integer in tenths: 23.5 is 235.   *)
(* Time is the FreeRTOS tick count in units of MsPerTick milliseconds, the *)
(* smallest delay of the firmware.  One run of the model is one boot: a    *)
(* CPU exception (panic) ends it.                                          *)
(***************************************************************************)
EXTENDS Integers, Sequences, FiniteSets, TLC

\* ------------------------------------------------------------------ bounds
\* Last tick of the modelled run (the clock stops there).
MaxTime == 75
\* Last tick of the longer runs: LongSpec, which reaches the third acquisition
\* cycle and the publish after it, and PubSpec, which reaches the second
\* regular publish.
MaxLongTime == 125
MaxPubTime == 102
\* Most polls of WiFi.status() before the network is up (the firmware allows
\* 60).
MaxWifiPolls == 1

\* ------------------------------------------------------- program constants
Scale == 100
MsPerTick == 100
NaN == -99999
WarmupMs == 2000
xFrequencyMs == 5000
xPublishFrequencyMs == 5000
ReadDelayMs == 100
RetryDelayMs == 5000
LoopDelayMs == 100
MutexTimeoutMs == 100
PwmMax == 255
PctMax == 100
AC_FAN_PIN == 1
EXHAUST_FAN_PIN == 2
WifiPollMs == 500

pdMS_TO_TICKS(ms) == ms \div MsPerTick

\* xTaskGetTickCount()
xTaskGetTickCount(t) == t

\* millis()
millis(t) == t * MsPerTick

Tasks == {"sensor", "mqtt"}

\* ------------------------------------------------------------ environment
\* What dht.readTemperature(), dht.readHumidity() and ina219.getCurrent_mA()
\* may return (hundredths; NaN is a failed DHT read).
TempReads == {2346, NaN}
HumReads == {5503, NaN}
CurrentReads == {12300}

\* How many ticks a task may stay preempted or blocked on serial output
\* while it holds the mutex.
StallTicks == {0, 1}

\* -------------------------------------------------------- pure functions
isnan(x) == x = NaN

\* C round(): to nearest, halves away from zero; n / d with d > 0.
RoundDiv(n, d) ==
    IF n >= 0 THEN (2 * n + d) \div (2 * d)
    ELSE -((2 * (-n) + d) \div (2 * d))

\* (int) of a float: truncation toward zero; n / d with d > 0.
TruncDiv(n, d) ==
    IF n >= 0 THEN n \div d ELSE -((-n) \div d)

\* Arduino constrain(amt, low, high)
constrain(amt, low, high) ==
    IF amt < low THEN low ELSE IF amt > high THEN high ELSE amt

Max(a, b) == IF a >= b THEN a ELSE b

\* SensorData currentData = {0, 0, 0, 0, 0, 0};
SensorDataInit ==
    [temperature |-> 0, humidity |-> 0, current_mA |-> 0,
     acFanPWM |-> 0, exhaustFanPWM |-> 0, timestamp |-> 0]

NULL == "NULL"

\* -------------------------------------------------------------- commands
\* JSON values of a decoded document.
JStr(s) == [kind |-> "str", str |-> s, num |-> 0]
JNum(n) == [kind |-> "num", str |-> "", num |-> n]

\* const char* x = doc[key]: the string, or a null pointer when the key is
\* missing or not a string.
AsCString(doc, key) ==
    IF key \in DOMAIN doc /\ doc[key].kind = "str" THEN doc[key].str ELSE NULL

\* float x = doc[key]: the number, or 0 when the key is missing or not a
\* number.
AsFloat(doc, key) ==
    IF key \in DOMAIN doc /\ doc[key].kind = "num" THEN doc[key].num ELSE 0

\* Payloads that may arrive on the command topic (numbers in hundredths).
\* ok is whether deserializeJson accepts the payload.
Json(d) == [ok |-> TRUE, doc |-> d, text |-> ""]
NotJson == [ok |-> FALSE, doc |-> [k \in {} |-> JNum(0)], text |-> "fan on"]
NoMessage == [ok |-> FALSE, doc |-> [k \in {} |-> JNum(0)], text |-> ""]

Payloads ==
    { NotJson,
      Json([id |-> JStr("c1"), type |-> JStr("SET_FAN"),
            target |-> JStr("exhaust"), val |-> JNum(4000)]),
      Json([id |-> JStr("c1"), type |-> JStr("SET_FAN"),
            target |-> JStr("exhaust"), value |-> JNum(6000)]),
      Json([type |-> JStr("SET_FAN"), target |-> JStr("ac"), val |-> JNum(15000)]),
      Json([type |-> JStr("SET_FAN"), target |-> JStr("ac"), val |-> JNum(7500)]),
      Json([type |-> JStr("SET_FAN"), target |-> JStr("intake"), val |-> JNum(-1000)]),
      Json([type |-> JStr("SET_FAN"), target |-> JStr("intake"), val |-> JNum(5000)]),
      Json([type |-> JStr("SET_FAN"), target |-> JStr("bogus"), val |-> JNum(5000)]),
      Json([type |-> JStr("SET_FAN"), target |-> JStr("ac"), val |-> JStr("fast")]),
      Json([type |-> JStr("SET_FAN"), val |-> JNum(5000)]),
      Json([type |-> JStr("GET_STATUS"), target |-> JStr("exhaust"), val |-> JNum(5000)]),
      Json([target |-> JStr("exhaust"), val |-> JNum(5000)]) }

\* The few payloads used where the broker connection is the subject: one of
\* each way a message is handled.
NetPayloads ==
    { NotJson,
      Json([id |-> JStr("c1"), type |-> JStr("SET_FAN"),
            target |-> JStr("exhaust"), val |-> JNum(4000)]),
      Json([type |-> JStr("SET_FAN"), target |-> JStr("ac"), val |-> JNum(15000)]),
      Json([target |-> JStr("exhaust"), val |-> JNum(5000)]) }

\* The percentage passed on as received.
ClampPercentage_None(percentage) == percentage

\* setFanPWM: percentage = constrain(percentage, 0, 100);
ClampPercentage(percentage) == constrain(percentage, 0, PctMax * Scale)

\* The duty rounded to nearest instead of cut.
PwmValue_Rounded(percentage) == RoundDiv(percentage * PwmMax, PctMax * Scale)

\* setFanPWM: int pwmValue = (int)(percentage * 255.0 / 100.0);
PwmValue(percentage) == TruncDiv(percentage * PwmMax, PctMax * Scale)

\* ------------------------------------------------------------- telemetry
\* The document with the current converted in one rounding step.
Telemetry_SingleRound(d) ==
    [ts |-> (d.timestamp \div 1000),
     temp |-> RoundDiv(d.temperature * 10, Scale),
     hum |-> RoundDiv(d.humidity * 10, Scale),
     fan_in |-> RoundDiv(d.acFanPWM * 10, Scale),
     fan_ex |-> RoundDiv(d.exhaustFanPWM * 10, Scale),
     amps |-> RoundDiv(d.current_mA, Scale * 10),
     door |-> 0]

\* The document with the two fan fields taken from each other's setpoint.
Telemetry_FansSwapped(d) ==
    [ts |-> (d.timestamp \div 1000),
     temp |-> RoundDiv(d.temperature * 10, Scale),
     hum |-> RoundDiv(d.humidity * 10, Scale),
     fan_in |-> RoundDiv(d.exhaustFanPWM * 10, Scale),
     fan_ex |-> RoundDiv(d.acFanPWM * 10, Scale),
     amps |-> RoundDiv(d.current_mA, Scale * 100),
     door |-> 0]

\* The JSON document mqttTask builds from its copy (ts in seconds, the other
\* numbers in tenths).
Telemetry(d) ==
    [ts |-> (d.timestamp \div 1000),
     temp |-> RoundDiv(d.temperature * 10, Scale),
     hum |-> RoundDiv(d.humidity * 10, Scale),
     fan_in |-> RoundDiv(d.acFanPWM * 10, Scale),
     fan_ex |-> RoundDiv(d.exhaustFanPWM * 10, Scale),
     amps |-> RoundDiv(d.current_mA, Scale * 100),
     door |-> 0]

\* --------------------------------------------------------------- state
VARIABLES
    now,            \* tick count
    pc,             \* [Tasks -> program location]
    wake,           \* [Tasks -> tick at which the blocked task runs again]
    mutex,          \* holder of sensorDataMutex: "none", "sensor", "mqtt"
    currentData,    \* the shared SensorData block
    duty,           \* PWM duty last written to each fan pin by ledcWrite
    sloc,           \* sensorTask locals: temp, hum, current
    xLastWakeTime,  \* sensorTask: vTaskDelayUntil reference
    xLastPublish,   \* mqttTask: tick of the last publish-timer expiry
    connected,      \* mqttClient.connected()
    subscribed,     \* a subscribe was issued on the session of the last connect
    msg,            \* the message mqttClient.loop() delivered in this iteration
    ledcLog,        \* ledcWrite calls made in this iteration
    localData,      \* mqttTask: the copy of currentData it publishes
    outbox          \* messages published by the loop iteration in progress

svars == <<sloc, xLastWakeTime>>
mvars == <<xLastPublish, connected, subscribed, msg, ledcLog, localData, outbox>>
vars == <<now, pc, wake, mutex, currentData, duty, svars, mvars>>

SensorLocalsInit == [temp |-> 0, hum |-> 0, current |-> 0]

\* State after setup(): mutex created, both fans attached and written 0 by
\* setupActuators(), both tasks created and about to run.
Init ==
    /\ now = 0
    /\ pc = [t \in Tasks |-> IF t = "sensor" THEN "s_start" ELSE "m_start"]
    /\ wake = [t \in Tasks |-> 0]
    /\ mutex = "none"
    /\ currentData = SensorDataInit
    /\ duty = [p \in {AC_FAN_PIN, EXHAUST_FAN_PIN} |-> 0]
    /\ sloc = SensorLocalsInit
    /\ xLastWakeTime = 0
    /\ xLastPublish = 0
    /\ connected = FALSE
    /\ subscribed = FALSE
    /\ msg = NoMessage
    /\ ledcLog = <<>>
    /\ localData = SensorDataInit
    /\ outbox = <<>>

\* A task at location l whose delay or blocking call has ended.
At(t, l) == pc[t] = l /\ wake[t] = now

Goto(t, l, w) ==
    /\ pc' = [pc EXCEPT ![t] = l]
    /\ wake' = [wake EXCEPT ![t] = w]

\* ------------------------------------------------------------ sensorTask
\* vTaskDelay(pdMS_TO_TICKS(2000))
SensorWarmup ==
    /\ At("sensor", "s_start")
    /\ Goto("sensor", "s_init", now + pdMS_TO_TICKS(WarmupMs))
    /\ UNCHANGED <<now, mutex, currentData, duty, sloc, xLastWakeTime, mvars>>

\* TickType_t xLastWakeTime = xTaskGetTickCount();
SensorInit ==
    /\ At("sensor", "s_init")
    /\ xLastWakeTime' = xTaskGetTickCount(now)
    /\ Goto("sensor", "s_readT", now)
    /\ UNCHANGED <<now, mutex, currentData, duty, sloc, mvars>>

\* float temp = dht.readTemperature(); vTaskDelay(pdMS_TO_TICKS(100));
SensorReadTemp ==
    /\ At("sensor", "s_readT")
    /\ \E v \in TempReads : sloc' = [sloc EXCEPT !.temp = v]
    /\ Goto("sensor", "s_readH", now + pdMS_TO_TICKS(ReadDelayMs))
    /\ UNCHANGED <<now, mutex, currentData, duty, xLastWakeTime, mvars>>

\* float hum = dht.readHumidity(); vTaskDelay(pdMS_TO_TICKS(100));
SensorReadHum ==
    /\ At("sensor", "s_readH")
    /\ \E v \in HumReads : sloc' = [sloc EXCEPT !.hum = v]
    /\ Goto("sensor", "s_readC", now + pdMS_TO_TICKS(ReadDelayMs))
    /\ UNCHANGED <<now, mutex, currentData, duty, xLastWakeTime, mvars>>

\* float current = ina219.getCurrent_mA();
SensorReadCurrent ==
    /\ At("sensor", "s_readC")
    /\ \E v \in CurrentReads : sloc' = [sloc EXCEPT !.current = v]
    /\ Goto("sensor", "s_take", now)
    /\ UNCHANGED <<now, mutex, currentData, duty, xLastWakeTime, mvars>>

\* A take that succeeds whoever holds the mutex.
SensorTake_Unguarded ==
    /\ At("sensor", "s_take")
    /\ mutex' = "sensor"
    /\ Goto("sensor", "s_w_temp", now)
    /\ UNCHANGED <<now, currentData, duty, sloc, xLastWakeTime, mvars>>

\* xSemaphoreTake(sensorDataMutex, pdMS_TO_TICKS(100)): taken at once when
\* free, otherwise the task blocks for at most the timeout.
SensorTake ==
    /\ At("sensor", "s_take")
    /\ IF mutex = "none"
       THEN /\ mutex' = "sensor"
            /\ Goto("sensor", "s_w_temp", now)
       ELSE /\ mutex' = mutex
            /\ Goto("sensor", "s_wait", now + pdMS_TO_TICKS(MutexTimeoutMs))
    /\ UNCHANGED <<now, currentData, duty, sloc, xLastWakeTime, mvars>>

\* The blocked xSemaphoreTake returns pdTRUE once the holder gives the mutex.
SensorWaitAcquire ==
    /\ pc["sensor"] = "s_wait"
    /\ mutex = "none"
    /\ mutex' = "sensor"
    /\ Goto("sensor", "s_w_temp", now)
    /\ UNCHANGED <<now, currentData, duty, sloc, xLastWakeTime, mvars>>

\* A timeout after which the acquisition is tried again.
SensorTimeout_Retry ==
    /\ At("sensor", "s_wait")
    /\ mutex # "none"
    /\ Goto("sensor", "s_take", now)
    /\ UNCHANGED <<now, mutex, currentData, duty, sloc, xLastWakeTime, mvars>>

\* The blocked xSemaphoreTake returns pdFALSE at the timeout: the if-body is
\* skipped.
SensorTimeout ==
    /\ At("sensor", "s_wait")
    /\ mutex # "none"
    /\ Goto("sensor", "s_until", now)
    /\ UNCHANGED <<now, mutex, currentData, duty, sloc, xLastWakeTime, mvars>>

\* The write without the isnan test.
SensorWriteTemp_Unchecked ==
    /\ At("sensor", "s_w_temp")
    /\ currentData' = [currentData EXCEPT !.temperature = sloc.temp]
    /\ Goto("sensor", "s_w_hum", now)
    /\ UNCHANGED <<now, mutex, duty, sloc, xLastWakeTime, mvars>>

\* if (!isnan(temp) && !isnan(hum)) { currentData.temperature = temp;
SensorWriteTemp ==
    /\ At("sensor", "s_w_temp")
    /\ IF ~isnan(sloc.temp) /\ ~isnan(sloc.hum)
       THEN /\ currentData' = [currentData EXCEPT !.temperature = sloc.temp]
            /\ Goto("sensor", "s_w_hum", now)
       ELSE /\ currentData' = currentData
            /\ Goto("sensor", "s_w_cur", now)
    /\ UNCHANGED <<now, mutex, duty, sloc, xLastWakeTime, mvars>>

\* currentData.humidity = hum; }
SensorWriteHum ==
    /\ At("sensor", "s_w_hum")
    /\ currentData' = [currentData EXCEPT !.humidity = sloc.hum]
    /\ Goto("sensor", "s_w_cur", now)
    /\ UNCHANGED <<now, mutex, duty, sloc, xLastWakeTime, mvars>>

\* The current written under the same test as temperature and humidity.
SensorWriteCurrent_IfValid ==
    /\ At("sensor", "s_w_cur")
    /\ currentData' = IF ~isnan(sloc.temp) /\ ~isnan(sloc.hum)
                       THEN [currentData EXCEPT !.current_mA = sloc.current]
                       ELSE currentData
    /\ Goto("sensor", "s_w_ts", now)
    /\ UNCHANGED <<now, mutex, duty, sloc, xLastWakeTime, mvars>>

\* currentData.current_mA = current;
SensorWriteCurrent ==
    /\ At("sensor", "s_w_cur")
    /\ currentData' = [currentData EXCEPT !.current_mA = sloc.current]
    /\ Goto("sensor", "s_w_ts", now)
    /\ UNCHANGED <<now, mutex, duty, sloc, xLastWakeTime, mvars>>

\* An acquisition cycle that stores a whole new structure, the fan fields
\* zeroed.
SensorWriteTimestamp_WholeStruct ==
    /\ At("sensor", "s_w_ts")
    /\ currentData' = [currentData EXCEPT !.timestamp = millis(now),
                                          !.acFanPWM = 0,
                                          !.exhaustFanPWM = 0]
    /\ \E d \in StallTicks : Goto("sensor", "s_give", now + d)
    /\ UNCHANGED <<now, mutex, duty, sloc, xLastWakeTime, mvars>>

\* currentData.timestamp = millis();  The task may be preempted before it
\* gives the mutex back.
SensorWriteTimestamp ==
    /\ At("sensor", "s_w_ts")
    /\ currentData' = [currentData EXCEPT !.timestamp = millis(now)]
    /\ \E d \in StallTicks : Goto("sensor", "s_give", now + d)
    /\ UNCHANGED <<now, mutex, duty, sloc, xLastWakeTime, mvars>>

\* xSemaphoreGive(sensorDataMutex); then the debug output.
SensorGive ==
    /\ At("sensor", "s_give")
    /\ mutex' = "none"
    /\ Goto("sensor", "s_until", now)
    /\ UNCHANGED <<now, currentData, duty, sloc, xLastWakeTime, mvars>>

\* The periodic wait as a sleep after the work: vTaskDelay(xFrequency).
SensorDelayUntil_SleepAfterWork ==
    /\ At("sensor", "s_until")
    /\ xLastWakeTime' = xLastWakeTime + pdMS_TO_TICKS(xFrequencyMs)
    /\ Goto("sensor", "s_readT", now + pdMS_TO_TICKS(xFrequencyMs))
    /\ sloc' = SensorLocalsInit
    /\ UNCHANGED <<now, mutex, currentData, duty, mvars>>

\* vTaskDelayUntil(&xLastWakeTime, xFrequency): the reference advances by
\* one period; the task sleeps until then, or not at all when that tick has
\* passed.  temp, hum and current go out of use.
SensorDelayUntil ==
    /\ At("sensor", "s_until")
    /\ xLastWakeTime' = xLastWakeTime + pdMS_TO_TICKS(xFrequencyMs)
    /\ Goto("sensor", "s_readT", Max(now, xLastWakeTime'))
    /\ sloc' = SensorLocalsInit
    /\ UNCHANGED <<now, mutex, currentData, duty, mvars>>

SensorNext ==
    \/ SensorWarmup
    \/ SensorInit
    \/ SensorReadTemp
    \/ SensorReadHum
    \/ SensorReadCurrent
    \/ SensorTake
    \/ SensorWaitAcquire
    \/ SensorTimeout
    \/ SensorWriteTemp
    \/ SensorWriteHum
    \/ SensorWriteCurrent
    \/ SensorWriteTimestamp
    \/ SensorGive
    \/ SensorDelayUntil

\* -------------------------------------------------------------- mqttTask
\* How long mqttClient.connect() and mqttClient.publish() may block (ticks).
ConnectTicks == {0, 1}
PublishTicks == {0, 1}

\* WiFi.begin(); while (WiFi.status() != WL_CONNECTED && attempts < 60)
\* vTaskDelay(500 ms);
MqttWifi ==
    /\ At("mqtt", "m_start")
    /\ \E polls \in 0..MaxWifiPolls :
         Goto("mqtt", "m_config", now + polls * pdMS_TO_TICKS(WifiPollMs))
    /\ UNCHANGED <<now, mutex, currentData, duty, svars, mvars>>

\* mqttClient.setServer() ... ; TickType_t xLastPublish = xTaskGetTickCount();
MqttConfig ==
    /\ At("mqtt", "m_config")
    /\ xLastPublish' = xTaskGetTickCount(now)
    /\ Goto("mqtt", "m_top", now)
    /\ UNCHANGED <<now, mutex, currentData, duty, svars,
                   connected, subscribed, msg, ledcLog, localData, outbox>>

\* A successful connect that is not followed by the subscribe: the new
\* session has no subscription.
MqttConnectOk_NoSubscribe ==
    /\ At("mqtt", "m_top")
    /\ ~connected
    /\ connected' = TRUE
    /\ subscribed' = FALSE
    /\ \E d \in ConnectTicks : Goto("mqtt", "m_loop", now + d)
    /\ UNCHANGED <<now, mutex, currentData, duty, svars,
                   xLastPublish, msg, ledcLog, localData, outbox>>

\* mqttClient.connect(clientId) succeeds and opens a new session;
\* mqttClient.subscribe(TOPIC_COMMANDS, 0) is issued on it.
MqttConnectOk ==
    /\ At("mqtt", "m_top")
    /\ ~connected
    /\ connected' = TRUE
    /\ subscribed' = TRUE
    /\ \E d \in ConnectTicks : Goto("mqtt", "m_loop", now + d)
    /\ UNCHANGED <<now, mutex, currentData, duty, svars,
                   xLastPublish, msg, ledcLog, localData, outbox>>

\* A failed attempt without the continue: after the delay the iteration goes
\* on to mqttClient.loop() and the publish timer.
MqttConnectFail_FallThrough ==
    /\ At("mqtt", "m_top")
    /\ ~connected
    /\ \E d \in ConnectTicks :
         Goto("mqtt", "m_loop", now + d + pdMS_TO_TICKS(RetryDelayMs))
    /\ UNCHANGED <<now, mutex, currentData, duty, svars, mvars>>

\* mqttClient.connect(clientId) fails: vTaskDelay(pdMS_TO_TICKS(5000));
MqttConnectFail ==
    /\ At("mqtt", "m_top")
    /\ ~connected
    /\ \E d \in ConnectTicks :
         Goto("mqtt", "m_retry", now + d + pdMS_TO_TICKS(RetryDelayMs))
    /\ UNCHANGED <<now, mutex, currentData, duty, svars, mvars>>

\* A task that gives up after the failed attempt.
MqttRetry_GiveUp ==
    /\ At("mqtt", "m_retry")
    /\ Goto("mqtt", "m_halt", now)
    /\ UNCHANGED <<now, mutex, currentData, duty, svars, mvars>>

\* continue;
MqttRetry ==
    /\ At("mqtt", "m_retry")
    /\ Goto("mqtt", "m_top", now)
    /\ UNCHANGED <<now, mutex, currentData, duty, svars, mvars>>

\* A connection loss that switches both fans off.
ConnLost_FansOff ==
    /\ connected
    /\ wake["mqtt"] = now
    /\ pc["mqtt"] \in {"m_top", "m_loop", "p_publish"}
    /\ connected' = FALSE
    /\ duty' = [p \in DOMAIN duty |-> 0]
    /\ UNCHANGED <<now, pc, wake, mutex, currentData, svars,
                   xLastPublish, subscribed, msg, ledcLog, localData, outbox>>

\* The broker connection drops.  The firmware sees it only where it asks the
\* client (connected(), loop(), publish()), so the drop is taken there.
ConnLost ==
    /\ connected
    /\ wake["mqtt"] = now
    /\ pc["mqtt"] \in {"m_top", "m_loop", "p_publish"}
    /\ connected' = FALSE
    /\ UNCHANGED <<now, pc, wake, mutex, currentData, duty, svars,
                   xLastPublish, subscribed, msg, ledcLog, localData, outbox>>

\* The loop iteration reaches mqttClient.loop(): after a successful connect,
\* or straight from the top when mqttClient.connected() is true.
AtLoop ==
    \/ At("mqtt", "m_loop")
    \/ At("mqtt", "m_top") /\ connected

\* mqttClient.loop() with nothing to deliver.
MqttLoopIdle ==
    /\ AtLoop
    /\ Goto("mqtt", "m_check", now)
    /\ UNCHANGED <<now, mutex, currentData, duty, svars, mvars>>

\* A CPU exception (a load through a null pointer): the run ends.
Panic ==
    /\ pc' = [t \in Tasks |-> "panic"]
    /\ wake' = wake

\* handleCommand: const char* cmdType = doc["type"]; const char* target =
\* doc["target"]; float value = doc["val"];
cmdType(m) == AsCString(m.doc, "type")
target(m) == AsCString(m.doc, "target")
value(m) == AsFloat(m.doc, "val")

\* The broker sends commands only to a session that has subscribed.
\* mqttClient.loop() delivers one message to mqttCallback, which decodes it
\* and calls handleCommand, which calls setFanPWM when the type is SET_FAN;
\* setFanPWM runs up to its xSemaphoreTake(sensorDataMutex,
\* pdMS_TO_TICKS(100)), which takes the mutex at once when it is free.
\* strcmp(cmdType, "SET_FAN") with cmdType a null pointer is undefined: the
\* load through it either raises the CPU exception or reads bytes that do
\* not compare equal.
MqttLoopMessage(received) ==
    /\ AtLoop
    /\ connected
    /\ subscribed
    /\ \E payload \in received :
         /\ msg' = payload
         /\ IF ~payload.ok
            THEN Goto("mqtt", "m_check", now) /\ mutex' = mutex
            ELSE IF cmdType(payload) = NULL
            THEN /\ \/ Panic
                    \/ Goto("mqtt", "m_check", now)
                 /\ mutex' = mutex
            ELSE IF cmdType(payload) # "SET_FAN"
            THEN Goto("mqtt", "m_check", now) /\ mutex' = mutex
            ELSE IF mutex = "none"
            THEN Goto("mqtt", "sf_target", now) /\ mutex' = "mqtt"
            ELSE /\ Goto("mqtt", "sf_wait", now + pdMS_TO_TICKS(MutexTimeoutMs))
                 /\ mutex' = mutex
    /\ UNCHANGED <<now, currentData, duty, svars,
                   xLastPublish, connected, subscribed, ledcLog, localData, outbox>>

\* The blocked xSemaphoreTake returns pdTRUE once the holder gives the mutex.
SetFanWaitAcquire ==
    /\ pc["mqtt"] = "sf_wait"
    /\ mutex = "none"
    /\ mutex' = "mqtt"
    /\ Goto("mqtt", "sf_target", now)
    /\ UNCHANGED <<now, currentData, duty, svars, mvars>>

\* A setFanPWM that waits for the mutex once more after the timeout.
SetFanTimeout_Retry ==
    /\ At("mqtt", "sf_wait")
    /\ mutex # "none"
    /\ Goto("mqtt", "sf_wait", now + pdMS_TO_TICKS(MutexTimeoutMs))
    /\ UNCHANGED <<now, mutex, currentData, duty, svars, mvars>>

\* xSemaphoreTake returns pdFALSE: setFanPWM returns, the command is dropped.
SetFanTimeout ==
    /\ At("mqtt", "sf_wait")
    /\ mutex # "none"
    /\ Goto("mqtt", "m_check", now)
    /\ UNCHANGED <<now, mutex, currentData, duty, svars, mvars>>

\* A final else that takes every other target for the ac fan.
TargetField_ElseAc(tgt) ==
    IF tgt = "exhaust" THEN "exhaustFanPWM" ELSE "acFanPWM"

\* The field of currentData a target names ("" for none).
TargetField(tgt) ==
    IF tgt = "exhaust" THEN "exhaustFanPWM"
    ELSE IF tgt = "ac" \/ tgt = "intake" THEN "acFanPWM"
    ELSE ""

\* The PWM pin a target names.
TargetPin(tgt) ==
    IF tgt = "exhaust" THEN EXHAUST_FAN_PIN ELSE AC_FAN_PIN

\* if (strcmp(target, "exhaust") == 0) { currentData.exhaustFanPWM =
\* percentage; ledcWrite(EXHAUST_FAN_PIN, pwmValue); Serial.print(...); }
\* else if (strcmp(target, "ac") == 0 || strcmp(target, "intake") == 0)
\* { currentData.acFanPWM = percentage; ledcWrite(AC_FAN_PIN, pwmValue);
\* Serial.print(...); }   Serial.print may block.  With target a null
\* pointer strcmp is undefined, as in handleCommand.
SetFanApply ==
    /\ At("mqtt", "sf_target")
    /\ LET tgt == target(msg)
           percentage == ClampPercentage(value(msg))
           pwmValue == PwmValue(percentage)
       IN  IF tgt = NULL
           THEN /\ \/ Panic
                   \/ Goto("mqtt", "sf_give", now)
                /\ UNCHANGED <<currentData, duty, ledcLog>>
           ELSE IF TargetField(tgt) # ""
           THEN /\ currentData' =
                     [currentData EXCEPT ![TargetField(tgt)] = percentage]
                /\ duty' = [duty EXCEPT ![TargetPin(tgt)] = pwmValue]
                /\ ledcLog' = Append(ledcLog, <<TargetPin(tgt), pwmValue>>)
                /\ \E d \in StallTicks : Goto("mqtt", "sf_give", now + d)
           ELSE /\ Goto("mqtt", "sf_give", now)
                /\ UNCHANGED <<currentData, duty, ledcLog>>
    /\ UNCHANGED <<now, mutex, svars,
                   xLastPublish, connected, subscribed, msg, localData, outbox>>

\* A setFanPWM that acknowledges the command with a publish of the shared
\* structure before it gives the mutex back.
SetFanGive_Ack ==
    /\ At("mqtt", "sf_give")
    /\ mutex' = "none"
    /\ Goto("mqtt", "m_check", now)
    /\ msg' = NoMessage
    /\ ledcLog' = <<>>
    /\ outbox' = Append(outbox, Telemetry(currentData))
    /\ UNCHANGED <<now, currentData, duty, svars,
                   xLastPublish, connected, subscribed, localData>>

\* xSemaphoreGive(sensorDataMutex); setFanPWM, handleCommand, mqttCallback
\* and mqttClient.loop() return.
SetFanGive ==
    /\ At("mqtt", "sf_give")
    /\ mutex' = "none"
    /\ Goto("mqtt", "m_check", now)
    /\ msg' = NoMessage
    /\ ledcLog' = <<>>
    /\ UNCHANGED <<now, currentData, duty, svars,
                   xLastPublish, connected, subscribed, localData, outbox>>

\* A timer that is not restarted at the check.
MqttCheck_NoReset ==
    /\ At("mqtt", "m_check")
    /\ IF xTaskGetTickCount(now) - xLastPublish >= pdMS_TO_TICKS(xPublishFrequencyMs)
       THEN Goto("mqtt", "p_take", now)
       ELSE Goto("mqtt", "m_top", now + pdMS_TO_TICKS(LoopDelayMs))
    /\ xLastPublish' = xLastPublish
    /\ msg' = NoMessage
    /\ ledcLog' = <<>>
    /\ UNCHANGED <<now, mutex, currentData, duty, svars,
                   connected, subscribed, localData, outbox>>

\* if ((xTaskGetTickCount() - xLastPublish) >= xPublishFrequency)
\*   xLastPublish = xTaskGetTickCount();
\* and, when the timer is not due, the vTaskDelay(pdMS_TO_TICKS(100)) that
\* ends the iteration.
MqttCheck ==
    /\ At("mqtt", "m_check")
    /\ IF xTaskGetTickCount(now) - xLastPublish >= pdMS_TO_TICKS(xPublishFrequencyMs)
       THEN /\ xLastPublish' = xTaskGetTickCount(now)
            /\ Goto("mqtt", "p_take", now)
       ELSE /\ xLastPublish' = xLastPublish
            /\ Goto("mqtt", "m_top", now + pdMS_TO_TICKS(LoopDelayMs))
    /\ msg' = NoMessage
    /\ ledcLog' = <<>>
    /\ UNCHANGED <<now, mutex, currentData, duty, svars,
                   connected, subscribed, localData, outbox>>

\* A publish path that copies without waiting for the mutex.
PublishTake_Unguarded ==
    /\ At("mqtt", "p_take")
    /\ mutex' = "mqtt"
    /\ Goto("mqtt", "p_copy1", now)
    /\ UNCHANGED <<now, currentData, duty, svars, mvars>>

\* xSemaphoreTake(sensorDataMutex, pdMS_TO_TICKS(100))
PublishTake ==
    /\ At("mqtt", "p_take")
    /\ IF mutex = "none"
       THEN /\ mutex' = "mqtt"
            /\ Goto("mqtt", "p_copy1", now)
       ELSE /\ mutex' = mutex
            /\ Goto("mqtt", "p_wait", now + pdMS_TO_TICKS(MutexTimeoutMs))
    /\ UNCHANGED <<now, currentData, duty, svars, mvars>>

PublishWaitAcquire ==
    /\ pc["mqtt"] = "p_wait"
    /\ mutex = "none"
    /\ mutex' = "mqtt"
    /\ Goto("mqtt", "p_copy1", now)
    /\ UNCHANGED <<now, currentData, duty, svars, mvars>>

\* xSemaphoreTake returns pdFALSE: nothing is published.
PublishTimeout ==
    /\ At("mqtt", "p_wait")
    /\ mutex # "none"
    /\ Goto("mqtt", "m_delay", now)
    /\ UNCHANGED <<now, mutex, currentData, duty, svars, mvars>>

\* localData = currentData; the struct copy is not one machine operation:
\* the sensor fields first,
PublishCopySensors ==
    /\ At("mqtt", "p_copy1")
    /\ localData' = [localData EXCEPT !.temperature = currentData.temperature,
                                      !.humidity = currentData.humidity,
                                      !.current_mA = currentData.current_mA]
    /\ Goto("mqtt", "p_copy2", now)
    /\ UNCHANGED <<now, mutex, currentData, duty, svars,
                   xLastPublish, connected, subscribed, msg, ledcLog, outbox>>

\* then the fan fields and the timestamp.  The task may be preempted before
\* it gives the mutex back.
PublishCopyRest ==
    /\ At("mqtt", "p_copy2")
    /\ localData' = [localData EXCEPT !.acFanPWM = currentData.acFanPWM,
                                      !.exhaustFanPWM = currentData.exhaustFanPWM,
                                      !.timestamp = currentData.timestamp]
    /\ \E d \in StallTicks : Goto("mqtt", "p_give", now + d)
    /\ UNCHANGED <<now, mutex, currentData, duty, svars,
                   xLastPublish, connected, subscribed, msg, ledcLog, outbox>>

\* xSemaphoreGive(sensorDataMutex);
PublishGive ==
    /\ At("mqtt", "p_give")
    /\ mutex' = "none"
    /\ Goto("mqtt", "p_publish", now)
    /\ UNCHANGED <<now, currentData, duty, svars, mvars>>

\* serializeJson(doc, jsonBuffer); mqttClient.publish(TOPIC_SENSORS, ...):
\* the message goes out only while connected, and the call may fail.
PublishSend ==
    /\ At("mqtt", "p_publish")
    /\ \E sent \in BOOLEAN :
         /\ sent => connected
         /\ outbox' = IF sent THEN Append(outbox, Telemetry(localData)) ELSE outbox
    /\ \E d \in PublishTicks : Goto("mqtt", "m_delay", now + d)
    /\ UNCHANGED <<now, mutex, currentData, duty, svars,
                   xLastPublish, connected, subscribed, msg, ledcLog, localData>>

\* vTaskDelay(pdMS_TO_TICKS(100)); localData and the message leave scope.
MqttDelay ==
    /\ At("mqtt", "m_delay")
    /\ Goto("mqtt", "m_top", now + pdMS_TO_TICKS(LoopDelayMs))
    /\ localData' = SensorDataInit
    /\ outbox' = <<>>
    /\ UNCHANGED <<now, mutex, currentData, duty, svars,
                   xLastPublish, connected, subscribed, msg, ledcLog>>

MqttNext ==
    \/ MqttWifi
    \/ MqttConfig
    \/ MqttConnectOk
    \/ MqttConnectFail
    \/ MqttRetry
    \/ MqttLoopIdle
    \/ MqttLoopMessage(NetPayloads)
    \/ SetFanWaitAcquire
    \/ SetFanTimeout
    \/ SetFanApply
    \/ SetFanGive
    \/ MqttCheck
    \/ PublishTake
    \/ PublishWaitAcquire
    \/ PublishTimeout
    \/ PublishCopySensors
    \/ PublishCopyRest
    \/ PublishGive
    \/ PublishSend
    \/ MqttDelay

\* ------------------------------------------------------------------ time
\* A task that can take a step at the current tick.
Runnable(t) ==
    \/ wake[t] = now /\ pc[t] # "panic"
    \/ pc[t] \in {"s_wait", "sf_wait", "p_wait"} /\ mutex = "none"

\* The tick interrupt: time passes only when no task has work left to do at
\* the current tick.
TickTo(last) ==
    /\ now < last
    /\ \A t \in Tasks : pc[t] # "panic" /\ ~Runnable(t)
    /\ now' = now + 1
    /\ UNCHANGED <<pc, wake, mutex, currentData, duty, svars, mvars>>

Tick == TickTo(MaxTime)

Next ==
    \/ SensorNext
    \/ MqttNext
    \/ ConnLost
    \/ Tick

Spec == Init /\ [][Next]_vars

\* The broker stays reachable and every command payload may arrive.  With
\* the publish timer started at 0 or 500 ms and never delayed by an outage,
\* the publish path never meets the acquisition cycle at the mutex, so its
\* wait is left out along with the connection faults.
CmdNext ==
    \/ SensorNext
    \/ MqttWifi
    \/ MqttConfig
    \/ MqttConnectOk
    \/ MqttLoopIdle
    \/ MqttLoopMessage(Payloads)
    \/ SetFanWaitAcquire
    \/ SetFanTimeout
    \/ SetFanApply
    \/ SetFanGive
    \/ MqttCheck
    \/ PublishTake
    \/ PublishCopySensors
    \/ PublishCopyRest
    \/ PublishGive
    \/ PublishSend
    \/ MqttDelay
    \/ Tick

CmdSpec == Init /\ [][CmdNext]_vars

\* The broker connection alone: nothing arrives on the command topic.
NetNext ==
    \/ SensorNext
    \/ MqttWifi
    \/ MqttConfig
    \/ MqttConnectOk
    \/ MqttConnectFail
    \/ MqttRetry
    \/ ConnLost
    \/ MqttLoopIdle
    \/ MqttCheck
    \/ PublishTake
    \/ PublishWaitAcquire
    \/ PublishTimeout
    \/ PublishCopySensors
    \/ PublishCopyRest
    \/ PublishGive
    \/ PublishSend
    \/ MqttDelay
    \/ Tick

\* The steps of mqttTask in NetNext.
NetMqttNext ==
    \/ MqttWifi
    \/ MqttConfig
    \/ MqttConnectOk
    \/ MqttConnectFail
    \/ MqttRetry
    \/ MqttLoopIdle
    \/ MqttCheck
    \/ PublishTake
    \/ PublishWaitAcquire
    \/ PublishTimeout
    \/ PublishCopySensors
    \/ PublishCopyRest
    \/ PublishGive
    \/ PublishSend
    \/ MqttDelay

\* The tick interrupt keeps firing, and each task is pinned to a core of its
\* own (xTaskCreatePinnedToCore), so a task that can run does run.
FairSpec ==
    /\ Init
    /\ [][NetNext]_vars
    /\ WF_vars(Tick)
    /\ WF_vars(SensorNext)
    /\ WF_vars(NetMqttNext)

\* NetNext over the longer run.
LongNext ==
    \/ SensorNext
    \/ MqttWifi
    \/ MqttConfig
    \/ MqttConnectOk
    \/ MqttConnectFail
    \/ MqttRetry
    \/ ConnLost
    \/ MqttLoopIdle
    \/ MqttCheck
    \/ PublishTake
    \/ PublishWaitAcquire
    \/ PublishTimeout
    \/ PublishCopySensors
    \/ PublishCopyRest
    \/ PublishGive
    \/ PublishSend
    \/ MqttDelay
    \/ TickTo(MaxLongTime)

LongSpec == Init /\ [][LongNext]_vars

\* CmdNext with the few payloads, up to the second regular publish.
PubNext ==
    \/ SensorNext
    \/ MqttWifi
    \/ MqttConfig
    \/ MqttConnectOk
    \/ MqttLoopIdle
    \/ MqttLoopMessage(NetPayloads)
    \/ SetFanWaitAcquire
    \/ SetFanTimeout
    \/ SetFanApply
    \/ SetFanGive
    \/ MqttCheck
    \/ PublishTake
    \/ PublishCopySensors
    \/ PublishCopyRest
    \/ PublishGive
    \/ PublishSend
    \/ MqttDelay
    \/ TickTo(MaxPubTime)

PubSpec == Init /\ [][PubNext]_vars

\* The encoding of telemetry, over a range of stored values: the publish
\* timer has expired at its first period, after the first acquisition cycle,
\* and currentData holds any of the values below (hundredths).
StoredTemperatures == {2346, 2344, -550, 0}
StoredHumidities == {5503, 9996}
StoredCurrents == {0, 4999, 5000, 12300, 14999, 15000, 123456, -5000}
StoredSetpoints == {0, 3333, 7500, 10000}

EncInit ==
    /\ now = pdMS_TO_TICKS(xPublishFrequencyMs)
    /\ pc = [t \in Tasks |-> IF t = "sensor" THEN "s_readT" ELSE "p_take"]
    /\ wake = [t \in Tasks |->
                 IF t = "sensor"
                 THEN pdMS_TO_TICKS(WarmupMs) + pdMS_TO_TICKS(xFrequencyMs)
                 ELSE now]
    /\ mutex = "none"
    /\ \E te \in StoredTemperatures, hu \in StoredHumidities,
          cu \in StoredCurrents, ac \in StoredSetpoints, ex \in StoredSetpoints :
         /\ currentData = [temperature |-> te, humidity |-> hu,
                           current_mA |-> cu, acFanPWM |-> ac,
                           exhaustFanPWM |-> ex,
                           timestamp |-> millis(pdMS_TO_TICKS(WarmupMs)
                                                + 2 * pdMS_TO_TICKS(ReadDelayMs))]
         /\ duty = [p \in {AC_FAN_PIN, EXHAUST_FAN_PIN} |->
                      IF p = AC_FAN_PIN THEN PwmValue(ac) ELSE PwmValue(ex)]
    /\ sloc = SensorLocalsInit
    /\ xLastWakeTime = pdMS_TO_TICKS(WarmupMs) + pdMS_TO_TICKS(xFrequencyMs)
    /\ xLastPublish = now
    /\ connected = TRUE
    /\ subscribed = TRUE
    /\ msg = NoMessage
    /\ ledcLog = <<>>
    /\ localData = SensorDataInit
    /\ outbox = <<>>

EncNext ==
    \/ PublishTake
    \/ PublishCopySensors
    \/ PublishCopyRest
    \/ PublishGive
    \/ PublishSend
    \/ MqttDelay
    \/ Tick

EncSpec == EncInit /\ [][EncNext]_vars

\* ------------------------------------------------------------ properties
\* Locations at which a task is between its xSemaphoreTake and its
\* xSemaphoreGive.
SensorCS == {"s_w_temp", "s_w_hum", "s_w_cur", "s_w_ts", "s_give"}
MqttCS == {"sf_target", "sf_give", "p_copy1", "p_copy2", "p_give"}

\* C1: at most one task is inside a critical section, a task inside one is
\* the holder of sensorDataMutex, every write of a currentData field is a
\* step of the holder, and the publish path copies currentData only while
\* mqttTask is the holder.
C1_HolderAccess ==
    /\ ~(pc'["sensor"] \in SensorCS /\ pc'["mqtt"] \in MqttCS)
    /\ pc'["sensor"] \in SensorCS => mutex' = "sensor"
    /\ pc'["mqtt"] \in MqttCS => mutex' = "mqtt"
    /\ currentData' # currentData =>
         /\ mutex \in Tasks
         /\ mutex' = mutex
         /\ pc'[mutex] # pc[mutex] \/ wake'[mutex] # wake[mutex]
    /\ (localData' # localData /\ localData' # SensorDataInit) => mutex = "mqtt"

C1_MutexGuardsSharedData == [][C1_HolderAccess]_vars

\* mqttTask holds the mutex for a command while sensorTask is blocked in its
\* own take.
C1_Witness ==
    /\ pc["sensor"] = "s_wait"
    /\ pc["mqtt"] = "sf_give"
    /\ mutex = "mqtt"

\* C2: when the copy is complete it equals currentData as it stands at that
\* instant, it is not touched again before it is sent, and the message sent
\* is the encoding of that copy.
C2_SnapshotStep ==
    /\ (pc["mqtt"] = "p_copy2" /\ pc'["mqtt"] = "p_give") =>
         localData' = currentData /\ currentData' = currentData
    /\ pc["mqtt"] \in {"p_give", "p_publish"} => localData' = localData
    /\ (outbox' # outbox /\ outbox' # <<>>) =>
         outbox' = Append(outbox, Telemetry(localData))

C2_LockConsistentSnapshot == [][C2_SnapshotStep]_vars

\* The copy is complete, holds a commanded setpoint and a sensor value, and
\* sensorTask is blocked at the mutex with its next sample.
C2_Witness ==
    /\ pc["mqtt"] = "p_give"
    /\ pc["sensor"] = "s_wait"
    /\ localData.exhaustFanPWM = 4000
    /\ localData.temperature = 2346

\* C3: the stored temperature and humidity are never NaN, and through a
\* cycle whose temperature (humidity) read returned NaN the stored
\* temperature (humidity) does not change.
C3_NaNStep ==
    /\ ~isnan(currentData'.temperature)
    /\ ~isnan(currentData'.humidity)
    /\ isnan(sloc.temp) => currentData'.temperature = currentData.temperature
    /\ isnan(sloc.hum) => currentData'.humidity = currentData.humidity

C3_NaNNeverStored == [][C3_NaNStep]_vars

\* A cycle whose temperature read failed has done its writes and the value
\* stored by an earlier cycle is still there.
C3_Witness ==
    /\ pc["sensor"] = "s_give"
    /\ isnan(sloc.temp)
    /\ ~isnan(sloc.hum)
    /\ currentData.temperature = 2346
    /\ currentData.timestamp > 5000

\* A percentage in hundredths brought into 0..100, and the duty of a clamped
\* percentage with the fraction cut off or rounded to nearest.
Clamp0To100(v) == IF v < 0 THEN 0 ELSE IF v > 10000 THEN 10000 ELSE v
DutyCut(c) == (c * 255) \div 10000
DutyNearest(c) == (2 * c * 255 + 10000) \div 20000

\* The last ledcWrite of a log: <<pin, duty>>.
LastWrite(log) == log[Len(log)]

\* C4 as stated: every duty written by setFanPWM is
\* round(clamp(p, 0, 100) * 255 / 100), p the commanded percentage.
C4_DutyStepNearest ==
    (ledcLog' # ledcLog /\ ledcLog' # <<>>) =>
      /\ LastWrite(ledcLog')[2] = DutyNearest(Clamp0To100(value(msg)))
      /\ duty'[LastWrite(ledcLog')[1]] = LastWrite(ledcLog')[2]

C4_DutyRoundedToNearest == [][C4_DutyStepNearest]_vars

\* What setFanPWM writes instead: the integer part of
\* clamp(p, 0, 100) * 255 / 100.
C4_DutyStepCut ==
    (ledcLog' # ledcLog /\ ledcLog' # <<>>) =>
      /\ LastWrite(ledcLog')[2] = DutyCut(Clamp0To100(value(msg)))
      /\ duty'[LastWrite(ledcLog')[1]] = LastWrite(ledcLog')[2]

C4_DutyIsIntegerPart == [][C4_DutyStepCut]_vars

\* A command for 50 percent has been applied: 127.5 went out as 127.
C4_Witness ==
    /\ pc["mqtt"] = "sf_give"
    /\ value(msg) = 5000
    /\ ledcLog = <<<<AC_FAN_PIN, 127>>>>
    /\ duty[AC_FAN_PIN] = 127

\* A decoded SET_FAN command for one of the three targets.
IsSetFan(m) ==
    /\ m.ok
    /\ cmdType(m) = "SET_FAN"
    /\ target(m) \in {"exhaust", "ac", "intake"}

\* The setpoint field and the pin the claims assign to a target.
FieldOf(tgt) == IF tgt = "exhaust" THEN "exhaustFanPWM" ELSE "acFanPWM"
PinOf(tgt) == IF tgt = "exhaust" THEN EXHAUST_FAN_PIN ELSE AC_FAN_PIN

\* What the handled command must have done, v being the number it carried.
SetFanEffect(m, v) ==
    /\ currentData'[FieldOf(target(m))] = Clamp0To100(v)
    /\ \A f \in DOMAIN currentData \ {FieldOf(target(m))} :
         currentData'[f] = currentData[f]
    /\ ledcLog' = <<<<PinOf(target(m)), DutyCut(Clamp0To100(v))>>>>
    /\ duty'[PinOf(target(m))] = DutyCut(Clamp0To100(v))
    /\ \A q \in DOMAIN duty \ {PinOf(target(m))} : duty'[q] = duty[q]

\* C5 as stated: the number is taken from the field named `value`.
C5_StepValue ==
    (pc["mqtt"] = "sf_target" /\ pc'["mqtt"] = "sf_give" /\ IsSetFan(msg)
       /\ "value" \in DOMAIN msg.doc) =>
      SetFanEffect(msg, AsFloat(msg.doc, "value"))

C5_SetFanReadsValue == [][C5_StepValue]_vars

\* What handleCommand does instead: the number is taken from the field
\* named `val`, and is 0 when there is none.
C5_StepVal ==
    (pc["mqtt"] = "sf_target" /\ pc'["mqtt"] = "sf_give" /\ IsSetFan(msg)) =>
      SetFanEffect(msg, AsFloat(msg.doc, "val"))

C5_SetFanReadsVal == [][C5_StepVal]_vars

\* An exhaust command carrying value 60 has been applied on top of an
\* exhaust setpoint of 40: the setpoint and the duty are 0.
C5_Witness ==
    /\ pc["mqtt"] = "sf_give"
    /\ target(msg) = "exhaust"
    /\ AsFloat(msg.doc, "value") = 6000
    /\ currentData.exhaustFanPWM = 0
    /\ ledcLog = <<<<EXHAUST_FAN_PIN, 0>>>>

\* A decoded SET_FAN command whose target is some other string.
IsUnknownTarget(m) ==
    /\ m.ok
    /\ cmdType(m) = "SET_FAN"
    /\ target(m) \notin {NULL, "exhaust", "ac", "intake"}

\* C6: while mqttTask handles a SET_FAN command with an unknown target, none
\* of its steps changes currentData or a duty or writes to a PWM channel or
\* faults, and the step that ends setFanPWM frees the mutex and goes on to
\* the publish check.
C6_Step ==
    (IsUnknownTarget(msg) /\ pc'["mqtt"] # pc["mqtt"]) =>
      /\ currentData' = currentData
      /\ duty' = duty
      /\ ledcLog' = <<>>
      /\ pc'["mqtt"] # "panic"
      /\ pc["mqtt"] = "sf_give" => mutex' = "none" /\ pc'["mqtt"] = "m_check"

C6_UnknownTargetNoOp == [][C6_Step]_vars

\* setFanPWM holds the mutex for a command with target "bogus" and has
\* passed both comparisons.
C6_Witness ==
    /\ pc["mqtt"] = "sf_give"
    /\ target(msg) = "bogus"
    /\ mutex = "mqtt"
    /\ ledcLog = <<>>

\* C7 as stated: the step that receives a payload that is not JSON, or an
\* object with no `type`, changes neither currentData nor a duty and leaves
\* mqttTask on its way to the publish check.
C7_Step ==
    (msg' # msg /\ (msg' = NotJson \/ (msg'.ok /\ cmdType(msg') = NULL))) =>
      /\ currentData' = currentData
      /\ duty' = duty
      /\ pc'["mqtt"] = "m_check"

C7_MalformedDiscarded == [][C7_Step]_vars

\* The part of C7 about payloads that are not JSON.
C7_NotJsonStep ==
    (msg' # msg /\ msg' = NotJson) =>
      /\ currentData' = currentData
      /\ duty' = duty
      /\ pc'["mqtt"] = "m_check"

C7_NotJsonDiscarded == [][C7_NotJsonStep]_vars

\* A payload with no `type` has been received and the run has ended in the
\* CPU exception.
C7_Witness ==
    /\ pc["mqtt"] = "panic"
    /\ msg.ok
    /\ cmdType(msg) = NULL

\* The snapshot of C9 (hundredths).
C9_Snapshot(d) ==
    /\ d.temperature = 2346
    /\ d.humidity = 5503
    /\ d.exhaustFanPWM = 4000
    /\ d.acFanPWM = 0
    /\ d.current_mA = 12300

\* C9 as stated: the snapshot is published with temp 23.5, hum 55.0,
\* fan_ex 40.0, fan_in 0.0, amps 1.2 and door 0 (tenths).
C9_EncodesAmps12 ==
    (outbox # <<>> /\ C9_Snapshot(localData)) =>
      /\ outbox[1].temp = 235
      /\ outbox[1].hum = 550
      /\ outbox[1].fan_ex = 400
      /\ outbox[1].fan_in = 0
      /\ outbox[1].amps = 12
      /\ outbox[1].door = 0

\* C9, amended: the snapshot is published with temp 23.5, hum 55.0,
\* fan_ex 40.0, fan_in 0.0, amps 0.1 and door 0.
C9_EncodesAmps01 ==
    (outbox # <<>> /\ C9_Snapshot(localData)) =>
      /\ outbox[1].temp = 235
      /\ outbox[1].hum = 550
      /\ outbox[1].fan_ex = 400
      /\ outbox[1].fan_in = 0
      /\ outbox[1].amps = 1
      /\ outbox[1].door = 0

\* The snapshot has been copied and its message sent.
C9_Witness ==
    /\ outbox # <<>>
    /\ C9_Snapshot(localData)

\* C10: both setpoints are within 0..100 and both duties within 0..255, and
\* a command above 100 (below 0) for a known target that obtained the mutex
\* has been applied as 100 with duty 255 (as 0 with duty 0).
C10_RangesAndClamping ==
    /\ currentData.acFanPWM \in 0..10000
    /\ currentData.exhaustFanPWM \in 0..10000
    /\ \A q \in DOMAIN duty : duty[q] \in 0..255
    /\ (pc["mqtt"] = "sf_give" /\ IsSetFan(msg) /\ value(msg) > 10000) =>
         /\ currentData[FieldOf(target(msg))] = 10000
         /\ duty[PinOf(target(msg))] = 255
         /\ ledcLog = <<<<PinOf(target(msg)), 255>>>>
    /\ (pc["mqtt"] = "sf_give" /\ IsSetFan(msg) /\ value(msg) < 0) =>
         /\ currentData[FieldOf(target(msg))] = 0
         /\ duty[PinOf(target(msg))] = 0
         /\ ledcLog = <<<<PinOf(target(msg)), 0>>>>

\* A command for 150 has been applied to fan B as 100.
C10_Witness ==
    /\ pc["mqtt"] = "sf_give"
    /\ value(msg) = 15000
    /\ currentData.acFanPWM = 10000
    /\ duty[AC_FAN_PIN] = 255

\* C8: in a run in which no connect attempt ever succeeds, a task waiting
\* after a failed attempt leaves the wait only at the end of the 5000 ms and
\* only for the next attempt, every such wait that ends within the modelled
\* time does end in that attempt, and every acquisition cycle that is due
\* within the modelled time stores its sample with the timestamp of that
\* cycle (200 ms after the cycle began).
C8_RetryStep ==
    /\ (pc["mqtt"] # "m_retry" /\ pc'["mqtt"] = "m_retry") =>
         wake'["mqtt"] - now \in { pdMS_TO_TICKS(RetryDelayMs) + d : d \in ConnectTicks }
    /\ (pc["mqtt"] = "m_retry" /\ pc'["mqtt"] # "m_retry") =>
         now = wake["mqtt"] /\ pc'["mqtt"] = "m_top"

C8_RetriesForeverSensorRuns ==
    /\ [][C8_RetryStep]_vars
    /\ ([]~connected) =>
         /\ (pc["mqtt"] = "m_retry" /\ wake["mqtt"] <= MaxTime)
              ~> (pc["mqtt"] = "m_top" /\ now = wake["mqtt"])
         /\ (pc["sensor"] = "s_readT" /\ wake["sensor"] + 3 <= MaxTime)
              ~> (pc["sensor"] = "s_until"
                    /\ currentData.timestamp = millis(xLastWakeTime + 2))

\* The second attempt has failed too, and the first sample is stored.
C8_Witness ==
    /\ pc["mqtt"] = "m_retry"
    /\ now >= pdMS_TO_TICKS(RetryDelayMs)
    /\ wake["mqtt"] >= 2 * pdMS_TO_TICKS(RetryDelayMs)
    /\ ~connected
    /\ currentData.timestamp = 2200

\* The publish timer is due.
TimerDue == now - xLastPublish >= pdMS_TO_TICKS(xPublishFrequencyMs)

\* C11 as stated: an iteration that finds the connection down when it checks
\* the publish timer, the timer being due, does not start a publish.
C11_DownAtCheckStep ==
    (pc["mqtt"] = "m_check" /\ ~connected /\ TimerDue) =>
      pc'["mqtt"] \notin {"p_take", "p_copy1", "p_wait"}

C11_NoAttemptWhileDown == [][C11_DownAtCheckStep]_vars

\* C11, amended: a message goes out only while connected and is the encoding
\* of the copy made in the same iteration; an iteration that finds the
\* connection down at its start either connects or waits and starts over,
\* without servicing the loop or the timer; the timer is restarted at the
\* tick of the check that finds it due, so periods missed in an outage are
\* not made up; and the copy and the message are dropped when the iteration
\* ends.
C11_Step ==
    /\ (outbox' # outbox /\ outbox' # <<>>) =>
         /\ connected
         /\ pc["mqtt"] = "p_publish"
         /\ outbox' = <<Telemetry(localData)>>
    /\ (pc["mqtt"] = "m_top" /\ ~connected /\ pc'["mqtt"] # "m_top") =>
         \/ pc'["mqtt"] = "m_retry" /\ ~connected'
         \/ pc'["mqtt"] = "m_loop" /\ connected'
    /\ (pc["mqtt"] = "m_retry" /\ pc'["mqtt"] # "m_retry") => pc'["mqtt"] = "m_top"
    /\ (pc'["mqtt"] = "p_take" /\ pc["mqtt"] # "p_take") =>
         /\ pc["mqtt"] = "m_check"
         /\ TimerDue
         /\ xLastPublish' = now
    /\ (pc["mqtt"] = "m_delay" /\ pc'["mqtt"] # "m_delay") =>
         /\ outbox' = <<>>
         /\ localData' = SensorDataInit

C11_SentOnlyWhileConnected == [][C11_Step]_vars

\* The timer has come due during an outage and the task is in its wait
\* between two failed attempts.
C11_Witness ==
    /\ pc["mqtt"] = "m_retry"
    /\ ~connected
    /\ TimerDue
    /\ outbox = <<>>

\* The positions of the Network Task inside mqttClient.loop(), that is, in
\* mqttCallback, handleCommand and setFanPWM.
CommandPcs == {"m_loop", "sf_wait", "sf_target", "sf_give"}

\* The positions of the Network Task on the publish-timer path.
PublishPcs == {"p_take", "p_wait", "p_copy1", "p_copy2", "p_give", "p_publish"}

\* C12: handling a command publishes nothing. The outbox (what the one
\* mqttClient.publish call, on the telemetry topic, has sent) grows only in
\* the step of that call, by one telemetry message; no step taken inside
\* mqttClient.loop() changes it; the publish path is entered only from the
\* timer check with the timer due, and no command is in hand on it.
C12_Step ==
    /\ outbox' # outbox =>
         \/ /\ pc["mqtt"] = "p_publish"
            /\ outbox' = Append(outbox, Telemetry(localData))
         \/ pc["mqtt"] = "m_delay" /\ outbox' = <<>>
    /\ pc["mqtt"] \in CommandPcs => outbox' = outbox
    /\ (pc'["mqtt"] \in PublishPcs /\ pc["mqtt"] \notin PublishPcs) =>
         /\ pc["mqtt"] = "m_check"
         /\ TimerDue
    /\ pc'["mqtt"] \in PublishPcs => msg' = NoMessage

C12_OnlyTelemetryPublished == [][C12_Step]_vars

\* A SET_FAN command has been applied, the timer is not due, and nothing has
\* been published.
C12_Witness ==
    /\ pc["mqtt"] = "sf_give"
    /\ IsSetFan(msg)
    /\ ledcLog # <<>>
    /\ ~TimerDue
    /\ outbox = <<>>

\* The timer was started by an earlier expiry, not by the assignment before
\* the loop (which happens before tick pdMS_TO_TICKS(5000)).
TimerRestarted == xLastPublish >= pdMS_TO_TICKS(xPublishFrequencyMs)

\* C13: with the connection up and the mutex free, consecutive expiries of
\* the publish timer, each followed by a publish, are exactly 5000 ms apart:
\* never less, and never more by the time the loop iteration takes.
C13_PeriodStep ==
    (xLastPublish' # xLastPublish /\ TimerRestarted) =>
      xLastPublish' - xLastPublish = pdMS_TO_TICKS(xPublishFrequencyMs)

C13_PublishEvery5000ms == [][C13_PeriodStep]_vars

\* The half that the polled timer does guarantee: two expiries are never
\* less than 5000 ms apart.
C13_AtLeastStep ==
    (xLastPublish' # xLastPublish /\ pc["mqtt"] = "m_check") =>
      xLastPublish' - xLastPublish >= pdMS_TO_TICKS(xPublishFrequencyMs)

C13_NeverLessThan5000ms == [][C13_AtLeastStep]_vars

\* The second publish after a first one: the timer has expired a second
\* time, later than 5000 ms after the first expiry, and the message is about
\* to be sent.
C13_Witness ==
    /\ pc["mqtt"] = "p_publish"
    /\ connected
    /\ TimerRestarted
    /\ xLastPublish > 2 * pdMS_TO_TICKS(xPublishFrequencyMs)

\* A SET_FAN command as the Command entity describes it: one of the three
\* targets and a number in the field named `value`.
IsValidSetFan(m) ==
    /\ IsSetFan(m)
    /\ "value" \in DOMAIN m.doc
    /\ m.doc["value"].kind = "num"

\* C14: every valid SET_FAN command that was received has, when its handling
\* ends, made one actuator write of its own, on the pin of its target, and
\* left the setpoint of its target at its clamped value. (One message is
\* handled per mqttClient.loop(), so receipt order and last-command-wins
\* follow once every command is applied.)
C14_EndOfHandlingStep ==
    (IsValidSetFan(msg) /\ pc["mqtt"] \in {"sf_wait", "sf_give"}
       /\ pc'["mqtt"] = "m_check") =>
      /\ Len(ledcLog) = 1
      /\ ledcLog[1][1] = PinOf(target(msg))
      /\ currentData[FieldOf(target(msg))] = Clamp0To100(msg.doc["value"].num)

C14_EachCommandApplied == [][C14_EndOfHandlingStep]_vars

\* What does hold: a command whose setFanPWM obtained the mutex has made one
\* write on the pin of its target before the next message is taken, and the
\* setpoint is the clamped number read from `val`.
C14_AppliedStep ==
    (IsSetFan(msg) /\ pc["mqtt"] = "sf_give" /\ pc'["mqtt"] # "sf_give") =>
      /\ pc'["mqtt"] = "m_check"
      /\ Len(ledcLog) = 1
      /\ ledcLog[1][1] = PinOf(target(msg))
      /\ currentData[FieldOf(target(msg))] = Clamp0To100(value(msg))

C14_AppliedInReceiptOrder == [][C14_AppliedStep]_vars

\* The handling of a valid command for the exhaust fan has ended without an
\* actuator write, the mutex not having been obtained within 100 ms.
C14_Witness ==
    /\ pc["mqtt"] = "m_check"
    /\ IsValidSetFan(msg)
    /\ target(msg) = "exhaust"
    /\ ledcLog = <<>>
    /\ mutex = "sensor"

\* C15: a timed-out acquisition skips the cycle. The Acquisition Task waits
\* at most the timeout, leaves the wait either with the mutex or for its
\* vTaskDelayUntil, having written nothing, and its next cycle is one period
\* after the start of this one. The publish path waits at most the timeout,
\* leaves the wait either with the mutex or for the delay that ends the
\* iteration, having published nothing; the timer was restarted when the
\* attempt began, and the next attempt is made only when it is due again.
C15_Step ==
    /\ pc["sensor"] = "s_wait" => now <= wake["sensor"]
    /\ (pc["sensor"] = "s_wait" /\ pc'["sensor"] # "s_wait") =>
         \/ pc'["sensor"] = "s_w_temp" /\ mutex = "none" /\ mutex' = "sensor"
         \/ /\ pc'["sensor"] = "s_until"
            /\ now = wake["sensor"]
            /\ currentData' = currentData
            /\ mutex' = mutex
    /\ (pc["sensor"] = "s_until" /\ pc'["sensor"] # "s_until") =>
         /\ pc'["sensor"] = "s_readT"
         /\ xLastWakeTime' = xLastWakeTime + pdMS_TO_TICKS(xFrequencyMs)
         /\ wake'["sensor"] = xLastWakeTime'
    /\ pc["mqtt"] = "p_wait" => now <= wake["mqtt"]
    /\ (pc["mqtt"] = "p_wait" /\ pc'["mqtt"] # "p_wait") =>
         \/ pc'["mqtt"] = "p_copy1" /\ mutex = "none" /\ mutex' = "mqtt"
         \/ /\ pc'["mqtt"] = "m_delay"
            /\ now = wake["mqtt"]
            /\ outbox = <<>> /\ outbox' = <<>>
            /\ mutex' = mutex
            /\ xLastPublish' = xLastPublish
            /\ xLastPublish = now - pdMS_TO_TICKS(MutexTimeoutMs)
    /\ (pc'["mqtt"] = "p_take" /\ pc["mqtt"] # "p_take") => TimerDue

C15_TimeoutSkipsCycle == [][C15_Step]_vars

\* The cycle before this one wrote nothing (the timestamp is older than its
\* start), and this cycle holds the mutex and is about to write the
\* timestamp.
C15_Witness ==
    /\ pc["sensor"] = "s_w_ts"
    /\ mutex = "sensor"
    /\ xLastWakeTime > pdMS_TO_TICKS(WarmupMs)
    /\ currentData.timestamp < millis(xLastWakeTime - pdMS_TO_TICKS(xFrequencyMs))

\* C16: there is no halting state: whatever the sensors, the broker, the
\* mutex and the received commands do, neither task ever stops.
C16_NoHaltingState == \A t \in Tasks : pc[t] # "panic"

\* What holds as long as no null pointer has been passed to strcmp: every
\* task has its next wake-up at or after the current tick (a wait on the
\* mutex included, which ends at its timeout at the latest), and the mutex is
\* held only by a task inside its critical section, which ends in
\* xSemaphoreGive.
C16_RunningTasksScheduled ==
    (\A t \in Tasks : pc[t] # "panic") =>
      /\ \A t \in Tasks : wake[t] >= now
      /\ mutex = "sensor" <=> pc["sensor"] \in SensorCS
      /\ mutex = "mqtt" <=> pc["mqtt"] \in MqttCS

\* Both tasks have stopped after a command with no `type`, received while
\* the acquisition task was between two cycles.
C16_Witness ==
    /\ \A t \in Tasks : pc[t] = "panic"
    /\ cmdType(msg) = NULL
    /\ xLastWakeTime > pdMS_TO_TICKS(WarmupMs)
    /\ currentData.timestamp > 0

\* C17: in a cycle where exactly one of the two reads returned NaN, the field
\* of the read that succeeded holds the newly read value when the cycle
\* has done its writes; only the field of the failed read is left as it was.
C17_OnlyFailedFieldKept ==
    (pc["sensor"] = "s_give" /\ isnan(sloc.temp) # isnan(sloc.hum)) =>
      /\ ~isnan(sloc.temp) => currentData.temperature = sloc.temp
      /\ ~isnan(sloc.hum) => currentData.humidity = sloc.hum

\* What sensorTask does instead: temperature and humidity are written
\* together, and only when neither read returned NaN; if either read failed,
\* both fields are left as they were.
C17_BothOrNeitherStep ==
    (pc["sensor"] \in {"s_w_temp", "s_w_hum"}
       /\ pc'["sensor"] \notin {pc["sensor"], "panic"}) =>
      IF ~isnan(sloc.temp) /\ ~isnan(sloc.hum)
      THEN \/ pc["sensor"] = "s_w_temp" /\ currentData'.temperature = sloc.temp
           \/ pc["sensor"] = "s_w_hum" /\ currentData'.humidity = sloc.hum
      ELSE currentData' = currentData

C17_BothOrNeither == [][C17_BothOrNeitherStep]_vars

\* The first cycle, with a good temperature read and a failed humidity read,
\* has ended its writes and the temperature field still is the initial 0.
C17_Witness ==
    /\ pc["sensor"] = "s_give"
    /\ ~isnan(sloc.temp)
    /\ isnan(sloc.hum)
    /\ currentData.temperature = 0
    /\ currentData.timestamp = millis(now)

\* C18 as stated: every acquisition cycle, when it reaches its
\* vTaskDelayUntil, has written the current it read and a timestamp taken
\* during the cycle.
C18_EveryCycleWrites ==
    pc["sensor"] = "s_until" =>
      /\ currentData.current_mA = sloc.current
      /\ currentData.timestamp >= millis(xLastWakeTime)

\* C18, amended: every cycle that obtains the mutex, whatever its temperature
\* and humidity reads returned, has written the current it read and a
\* timestamp taken during the cycle when it gives the mutex back; the
\* timestamp changes only in that write, to the current time, which is later
\* than the old value; a cycle whose acquisition timed out changes nothing.
C18_Step ==
    /\ (pc["sensor"] = "s_give" /\ pc'["sensor"] = "s_until") =>
         /\ currentData.current_mA = sloc.current
         /\ currentData.timestamp >= millis(xLastWakeTime)
         /\ currentData.timestamp <= millis(now)
    /\ currentData'.timestamp # currentData.timestamp =>
         /\ pc["sensor"] = "s_w_ts"
         /\ currentData'.timestamp = millis(now)
         /\ currentData'.timestamp > currentData.timestamp
    /\ currentData'.current_mA # currentData.current_mA =>
         pc["sensor"] = "s_w_cur"
    /\ (pc["sensor"] = "s_wait" /\ pc'["sensor"] = "s_until") =>
         currentData' = currentData

C18_CurrentAndTimestampWritten == [][C18_Step]_vars

\* The second cycle, in which both reads returned NaN, has written the
\* current and a timestamp later than that of the first cycle.
C18_Witness ==
    /\ pc["sensor"] = "s_give"
    /\ isnan(sloc.temp)
    /\ isnan(sloc.hum)
    /\ xLastWakeTime > pdMS_TO_TICKS(WarmupMs)
    /\ currentData.current_mA = sloc.current
    /\ currentData.timestamp = millis(now)

\* The fan setpoints, the duties and the log of ledcWrite calls are left as
\* they were.
FansUnchanged ==
    /\ currentData'.acFanPWM = currentData.acFanPWM
    /\ currentData'.exhaustFanPWM = currentData.exhaustFanPWM
    /\ duty' = duty
    /\ ledcLog' = ledcLog

\* A JSON object with no `target`, or with a `type` that is not "SET_FAN".
NoTargetOrOtherType(m) ==
    /\ m.ok
    /\ \/ target(m) = NULL
       \/ cmdType(m) \notin {NULL, "SET_FAN"}

\* A JSON object with a `type` that is not "SET_FAN".
OtherType(m) == m.ok /\ cmdType(m) \notin {NULL, "SET_FAN"}

\* C19: no step taken from the receipt of a command with no `target`, or
\* with a `type` other than "SET_FAN", to the end of its handling changes a
\* fan setpoint or a duty, and none ends in a CPU exception.
C19_Step ==
    (NoTargetOrOtherType(msg) \/ NoTargetOrOtherType(msg')) =>
      /\ FansUnchanged
      /\ pc'["mqtt"] # "panic"

C19_NoTargetOrOtherTypeDiscarded == [][C19_Step]_vars

\* The half that holds: a command with a `type` other than "SET_FAN" is
\* dropped by handleCommand, which goes on to the publish timer.
C19_OtherTypeStep ==
    (OtherType(msg) \/ OtherType(msg')) =>
      /\ FansUnchanged
      /\ pc'["mqtt"] \in {"m_check", "m_top", "p_take"}

C19_OtherTypeDiscarded == [][C19_OtherTypeStep]_vars

\* A SET_FAN command with no `target` has reached the strcmp of setFanPWM
\* and the run has ended in the CPU exception.
C19_Witness ==
    /\ pc["mqtt"] = "panic"
    /\ cmdType(msg) = "SET_FAN"
    /\ target(msg) = NULL

\* A SET_FAN command for one of the three targets that carries no number,
\* neither as `val` nor as `value`.
IsSetFanWithoutNumber(m) ==
    /\ IsSetFan(m)
    /\ \A k \in {"val", "value"} : k \notin DOMAIN m.doc \/ m.doc[k].kind # "num"

\* C20: no step taken from the receipt of a SET_FAN command that has a
\* recognised target and no numeric value to the end of its handling changes
\* a fan setpoint or a duty.
C20_Step ==
    (IsSetFanWithoutNumber(msg) \/ IsSetFanWithoutNumber(msg')) =>
      /\ currentData'.acFanPWM = currentData.acFanPWM
      /\ currentData'.exhaustFanPWM = currentData.exhaustFanPWM
      /\ duty' = duty

C20_NoNumberDiscarded == [][C20_Step]_vars

\* What handleCommand does instead: the missing number is read as 0 and the
\* command is applied as a command to 0 %.
C20_AppliedAsZeroStep ==
    (pc["mqtt"] = "sf_target" /\ pc'["mqtt"] = "sf_give"
       /\ IsSetFanWithoutNumber(msg)) =>
      /\ currentData'[FieldOf(target(msg))] = 0
      /\ duty'[PinOf(target(msg))] = 0
      /\ ledcLog' = <<<<PinOf(target(msg)), 0>>>>

C20_AppliedAsZero == [][C20_AppliedAsZeroStep]_vars

\* An ac command whose `val` is a string has been applied: setFanPWM has
\* set the ac setpoint to 0 and has written duty 0 to the ac pin.
C20_Witness ==
    /\ pc["mqtt"] = "sf_give"
    /\ IsSetFanWithoutNumber(msg)
    /\ target(msg) = "ac"
    /\ currentData.acFanPWM = 0
    /\ ledcLog = <<<<AC_FAN_PIN, 0>>>>

\* The positions of the Network Task past the connection test of its loop:
\* servicing the event loop, at the publish timer, publishing, or in the
\* delay that ends the iteration.
ConnectedPcs == CommandPcs \cup PublishPcs \cup {"m_check", "m_delay"}

\* C21: the step in which a connect succeeds issues the subscribe, and takes
\* the task from the connection test to the event loop; wherever the task is
\* past the connection test, or the client reports connected, a subscribe
\* has been issued on the session of the last connect; a failed attempt
\* issues no subscribe and leads only to the wait and from there back to the
\* connection test, with nothing published.
C21_Step ==
    /\ (~connected /\ connected') =>
         /\ pc["mqtt"] = "m_top"
         /\ pc'["mqtt"] = "m_loop"
         /\ subscribed'
    /\ (pc'["mqtt"] \in ConnectedPcs \/ connected') => subscribed'
    /\ (pc["mqtt"] = "m_top" /\ ~connected /\ ~connected'
          /\ pc'["mqtt"] # "m_top") =>
         /\ pc'["mqtt"] = "m_retry"
         /\ subscribed' = subscribed
         /\ outbox' = outbox
    /\ (pc["mqtt"] = "m_retry" /\ pc'["mqtt"] # "m_retry") =>
         /\ pc'["mqtt"] = "m_top"
         /\ subscribed' = subscribed
         /\ outbox' = outbox
         /\ ~connected'

C21_SubscribeAfterConnect == [][C21_Step]_vars

\* A connect that succeeded after an earlier attempt had failed or an
\* earlier connection had been lost: the task is at the event loop of the
\* new session, with the subscribe issued.
C21_Witness ==
    /\ pc["mqtt"] = "m_loop"
    /\ connected
    /\ subscribed
    /\ now >= pdMS_TO_TICKS(RetryDelayMs)

\* The critical section of a task, and the positions from which a task
\* calls or is blocked in xSemaphoreTake (setFanPWM is entered from
\* mqttClient.loop(), that is, from the top of the loop or after a connect).
CSOf(t) == IF t = "sensor" THEN SensorCS ELSE MqttCS
TakePcs(t) ==
    IF t = "sensor" THEN {"s_take", "s_wait"}
    ELSE {"m_top", "m_loop", "sf_wait", "p_take", "p_wait"}
GivePcs(t) == IF t = "sensor" THEN {"s_give"} ELSE {"sf_give", "p_give"}

\* The pairing of xSemaphoreTake and xSemaphoreGive, on the paths on which
\* the holder gets to its xSemaphoreGive (halted tells whether a step that
\* ends the run is allowed for).
MutexPairedStep(halted) ==
    \A t \in Tasks :
      /\ (mutex # t /\ mutex' = t) =>
           /\ mutex = "none"
           /\ pc[t] \in TakePcs(t)
           /\ pc'[t] \in CSOf(t)
      /\ (mutex = t /\ mutex' # t) =>
           /\ mutex' = "none"
           /\ pc[t] \in GivePcs(t)
           /\ pc'[t] \notin CSOf(t)
      /\ (mutex = t /\ mutex' = t) =>
           /\ pc[t] \in CSOf(t)
           /\ pc'[t] \in CSOf(t) \cup halted
      /\ mutex = t => pc[t] \notin TakePcs(t)

\* C22: every acquisition of the mutex is followed by its release by the
\* same task before that task takes it again: the mutex passes only from
\* free to a task at its xSemaphoreTake and from that task, at its
\* xSemaphoreGive, to free; the holder stays inside its critical section
\* until then, on every path; and the holder is never at an xSemaphoreTake.
C22_EveryTakeIsGivenBack == [][MutexPairedStep({})]_vars

\* What holds: the same, except on the path on which the holder or the
\* other task faults on a null pointer, which leaves the mutex held.
C22_GivenBackUnlessFault == [][MutexPairedStep({"panic"})]_vars

\* setFanPWM has faulted on a null `target` inside its critical section:
\* the run has ended with the mutex held by the Network Task.
C22_Witness ==
    /\ mutex = "mqtt"
    /\ pc["mqtt"] = "panic"
    /\ target(msg) = NULL

\* C23: a task that holds the mutex only reads and writes the shared state:
\* while the Network Task holds it no PWM duty is written and nothing is
\* published, and while the Acquisition Task holds it no sensor is read.
C23_Step ==
    /\ mutex = "mqtt" =>
         /\ duty' = duty
         /\ Len(ledcLog') <= Len(ledcLog)
         /\ outbox' = outbox
    /\ mutex = "sensor" => sloc' = sloc

C23_NoIOWhileHeld == [][C23_Step]_vars

\* What holds: the critical sections of sensorTask and of the publish path
\* contain only the accesses to currentData; the ledcWrite (and the serial
\* output after it) is inside the critical section of setFanPWM only.
C23_ExceptSetFanStep ==
    /\ (mutex = "mqtt" /\ pc["mqtt"] # "sf_target") =>
         /\ duty' = duty
         /\ Len(ledcLog') <= Len(ledcLog)
         /\ outbox' = outbox
    /\ mutex = "sensor" => sloc' = sloc

C23_NoIOWhileHeldExceptSetFan == [][C23_ExceptSetFanStep]_vars

\* setFanPWM has called ledcWrite for the exhaust fan and is still busy with
\* its serial output, holding the mutex, while the Acquisition Task waits
\* for the mutex.
C23_Witness ==
    /\ mutex = "mqtt"
    /\ pc["mqtt"] = "sf_give"
    /\ wake["mqtt"] > now
    /\ ledcLog # <<>>
    /\ ledcLog[1][1] = EXHAUST_FAN_PIN
    /\ pc["sensor"] = "s_wait"

\* The fields of currentData that sensorTask writes and those that setFanPWM
\* writes.
SensorFields == {"temperature", "humidity", "current_mA", "timestamp"}
FanFields == {"acFanPWM", "exhaustFanPWM"}

\* C24: a fan setpoint changes only in a step of setFanPWM, which is not a
\* step of the Acquisition Task; temperature, humidity, current and timestamp
\* change only in a step of the writes of sensorTask, which is not a step of
\* the Network Task, whatever payload it is handling.
C24_Step ==
    /\ (\E f \in FanFields : currentData'[f] # currentData[f]) =>
         /\ pc["mqtt"] = "sf_target"
         /\ mutex = "mqtt"
         /\ pc'["sensor"] = pc["sensor"]
         /\ \A f \in SensorFields : currentData'[f] = currentData[f]
    /\ (\E f \in SensorFields : currentData'[f] # currentData[f]) =>
         /\ pc["sensor"] \in {"s_w_temp", "s_w_hum", "s_w_cur", "s_w_ts"}
         /\ mutex = "sensor"
         /\ pc'["mqtt"] = pc["mqtt"]
         /\ \A f \in FanFields : currentData'[f] = currentData[f]
    /\ pc'["sensor"] \notin {pc["sensor"], "panic"} =>
         \A f \in FanFields : currentData'[f] = currentData[f]
    /\ pc'["mqtt"] # pc["mqtt"] =>
         \A f \in SensorFields : currentData'[f] = currentData[f]

C24_DisjointFieldOwnership == [][C24_Step]_vars

\* An acquisition cycle has written its fields while the ac setpoint set by
\* an earlier command is in place.
C24_Witness ==
    /\ pc["sensor"] = "s_give"
    /\ currentData.timestamp = millis(now)
    /\ currentData.temperature # 0
    /\ currentData.acFanPWM > 0
    /\ currentData.exhaustFanPWM > 0

\* C25: both duties are 0 when the tasks start, and the duty of a pin
\* changes only in the step in which setFanPWM, called for a SET_FAN command
\* whose target is the fan of that pin, makes its ledcWrite; that step is
\* not a step of the Acquisition Task and is no connect, publish or
\* connection loss.
C25_Step ==
    /\ (pc["mqtt"] = "m_start" /\ pc["sensor"] = "s_start") =>
         \A p \in DOMAIN duty : duty[p] = 0
    /\ \A p \in DOMAIN duty :
         duty'[p] # duty[p] =>
           /\ pc["mqtt"] = "sf_target"
           /\ pc'["mqtt"] = "sf_give"
           /\ cmdType(msg) = "SET_FAN"
           /\ target(msg) \in {"exhaust", "ac", "intake"}
           /\ PinOf(target(msg)) = p
           /\ ledcLog' = Append(ledcLog, <<p, duty'[p]>>)
           /\ pc'["sensor"] = pc["sensor"]
           /\ connected' = connected
           /\ outbox' = outbox

C25_DutyChangesOnlyBySetFan == [][C25_Step]_vars

\* The ac fan runs at full duty by an earlier command; since then an
\* acquisition cycle has written its fields, the connection was lost and a
\* connect attempt has failed.
C25_Witness ==
    /\ duty[AC_FAN_PIN] = PwmMax
    /\ ~connected
    /\ pc["mqtt"] = "m_retry"
    /\ currentData.timestamp > 0

\* n is num / d rounded to the nearest integer (d > 0).
IsNearest(n, num, d) ==
    /\ 2 * (n * d - num) <= d
    /\ 2 * (num - n * d) <= d

\* C26: the published amps, in tenths, is the stored current in milliamps
\* divided by 100 and rounded to the nearest integer; temp, hum, fan_in and
\* fan_ex are their source fields rounded to the nearest tenth, fan_in taken
\* from the ac/intake setpoint and fan_ex from the exhaust setpoint; and the
\* message is built from the stored values.
C26_TelemetryEncoding ==
    outbox # <<>> =>
      /\ localData = currentData
      /\ IsNearest(outbox[1].amps, currentData.current_mA, Scale * 100)
      /\ IsNearest(outbox[1].temp, currentData.temperature * 10, Scale)
      /\ IsNearest(outbox[1].hum, currentData.humidity * 10, Scale)
      /\ IsNearest(outbox[1].fan_in, currentData.acFanPWM * 10, Scale)
      /\ IsNearest(outbox[1].fan_ex, currentData.exhaustFanPWM * 10, Scale)

\* A stored current of 150 mA has been published as 0.2 A, with the ac
\* setpoint 75 as fan_in 75.0 and the exhaust setpoint 100 as fan_ex 100.0.
C26_Witness ==
    /\ outbox # <<>>
    /\ currentData.current_mA = 150 * Scale
    /\ outbox[1].amps = 2
    /\ currentData.acFanPWM = 75 * Scale
    /\ outbox[1].fan_in = 750
    /\ currentData.exhaustFanPWM = 100 * Scale
    /\ outbox[1].fan_ex = 1000

\* The positions of the Acquisition Task inside a cycle, after its first
\* read.
CyclePcs == {"s_readH", "s_readC", "s_take", "s_wait", "s_until"} \cup SensorCS

\* C27: a cycle begins (with the temperature read) at the tick
\* xLastWakeTime, which is the end of the 2000 ms warm-up plus a whole number
\* of periods; every cycle ends before the next period begins, whatever it
\* spent on reads, delays and the mutex, and its vTaskDelayUntil moves
\* xLastWakeTime on by exactly one period and wakes the task at that tick.
C27_Step ==
    /\ (pc["sensor"] = "s_readT" /\ pc'["sensor"] = "s_readH") =>
         /\ now = xLastWakeTime
         /\ now >= pdMS_TO_TICKS(WarmupMs)
         /\ (now - pdMS_TO_TICKS(WarmupMs)) % pdMS_TO_TICKS(xFrequencyMs) = 0
    /\ pc["sensor"] \in CyclePcs =>
         /\ now >= xLastWakeTime
         /\ now < xLastWakeTime + pdMS_TO_TICKS(xFrequencyMs)
    /\ (pc["sensor"] = "s_until" /\ pc'["sensor"] = "s_readT") =>
         /\ xLastWakeTime' = xLastWakeTime + pdMS_TO_TICKS(xFrequencyMs)
         /\ wake'["sensor"] = xLastWakeTime'
    /\ xLastWakeTime' # xLastWakeTime => pc["sensor"] \in {"s_init", "s_until"}

C27_DriftFreeCadence == [][C27_Step]_vars

\* The third cycle has begun, two periods after the first, although the
\* second cycle had to wait for the mutex and wrote its timestamp late.
C27_Witness ==
    /\ pc["sensor"] = "s_readH"
    /\ xLastWakeTime = pdMS_TO_TICKS(WarmupMs) + 2 * pdMS_TO_TICKS(xFrequencyMs)
    /\ currentData.timestamp >
         millis(xLastWakeTime - pdMS_TO_TICKS(xFrequencyMs)
                + 2 * pdMS_TO_TICKS(ReadDelayMs))

\* C28: whenever the mutex is free, the duty applied to each fan pin is the
\* integer part of the setpoint of that fan * 255 / 100; this includes the
\* state after setup, with both setpoints and both duties 0.
C28_DutyMatchesSetpoint ==
    mutex = "none" =>
      /\ duty[AC_FAN_PIN] = DutyCut(currentData.acFanPWM)
      /\ duty[EXHAUST_FAN_PIN] = DutyCut(currentData.exhaustFanPWM)

\* Both fans have been commanded, the ac fan to 50 % (duty 127, the integer
\* part of 127.5) and the exhaust fan to 40 % (duty 102), and the mutex has
\* been given back.
C28_Witness ==
    /\ mutex = "none"
    /\ pc["mqtt"] = "m_check"
    /\ currentData.acFanPWM = 50 * Scale
    /\ duty[AC_FAN_PIN] = 127
    /\ currentData.exhaustFanPWM = 40 * Scale
    /\ duty[EXHAUST_FAN_PIN] = 102

\* C29: a SET_FAN command for a fan is applied as a whole or not at all.
\* setFanPWM is entered once per received message; if it obtains the mutex,
\* its one step of writing sets the setpoint and the duty of the targeted
\* fan to the clamped number and its duty; a setpoint or a duty changes in
\* no other step; if the wait for the mutex ends at the timeout, which is
\* not extended, the task goes on to the publish timer with no setpoint and
\* no duty changed and no ledcWrite made, and the message is gone when the
\* timer has been checked.
C29_Step ==
    /\ (pc'["mqtt"] \in {"sf_wait", "sf_target"}
          /\ pc["mqtt"] \notin {"sf_wait", "sf_target"}) =>
         /\ pc["mqtt"] \in {"m_top", "m_loop"}
         /\ msg = NoMessage
         /\ cmdType(msg') = "SET_FAN"
    /\ (pc["mqtt"] = "sf_target" /\ pc'["mqtt"] = "sf_give" /\ IsSetFan(msg)) =>
         /\ currentData'[FieldOf(target(msg))] = Clamp0To100(value(msg))
         /\ duty'[PinOf(target(msg))] = DutyCut(Clamp0To100(value(msg)))
         /\ ledcLog' =
              <<<<PinOf(target(msg)), DutyCut(Clamp0To100(value(msg)))>>>>
    /\ ((\E f \in FanFields : currentData'[f] # currentData[f])
          \/ duty' # duty \/ Len(ledcLog') > Len(ledcLog)) =>
         /\ pc["mqtt"] = "sf_target"
         /\ mutex = "mqtt"
         /\ IsSetFan(msg)
    /\ pc["mqtt"] = "sf_wait" =>
         /\ pc'["mqtt"] \in {"sf_wait", "sf_target", "m_check", "panic"}
         /\ wake'["mqtt"] <= wake["mqtt"]
         /\ ledcLog = <<>>
    /\ (pc["mqtt"] = "sf_wait" /\ pc'["mqtt"] = "m_check") =>
         /\ now = wake["mqtt"]
         /\ mutex # "none"
         /\ ledcLog' = <<>>
    /\ (pc["mqtt"] = "m_check" /\ pc'["mqtt"] \notin {"m_check", "panic"}) =>
         msg' = NoMessage

C29_SetFanAllOrNothing == [][C29_Step]_vars

\* A command to run the ac fan at 150 % has been dropped at the timeout of
\* the mutex: the task is at the publish timer, no ledcWrite was made and
\* the ac fan is not at full duty.
C29_Witness ==
    /\ pc["mqtt"] = "m_check"
    /\ IsSetFan(msg)
    /\ target(msg) = "ac"
    /\ value(msg) = 150 * Scale
    /\ ledcLog = <<>>
    /\ currentData.acFanPWM # PctMax * Scale
    /\ duty[AC_FAN_PIN] # PwmMax

\* C30 as stated: the publish timer is restarted only by an iteration that
\* is connected when it reaches the timer check.
C30_ResetWhileConnectedStep ==
    (pc["mqtt"] = "m_check" /\ xLastPublish' # xLastPublish) => connected

C30_ResetOnlyWhileConnected == [][C30_ResetWhileConnectedStep]_vars

\* C30, amended: inside the loop the timer is restarted only at the timer
\* check, when it is due, to the current tick, and before the mutex is
\* taken; the check is reached only by an iteration that found the client
\* connected at its start or has just connected, never from a failed
\* attempt or its wait; a due timer at the check leads to the acquisition
\* at the same tick, however long the outage was; and an iteration that
\* ends on a mutex timeout or after the publish call, sent or not, leaves
\* the restarted timer as it is.
C30_Step ==
    /\ xLastPublish' # xLastPublish =>
         \/ pc["mqtt"] = "m_config"
         \/ /\ pc["mqtt"] = "m_check"
            /\ TimerDue
            /\ xLastPublish' = xTaskGetTickCount(now)
            /\ pc'["mqtt"] = "p_take"
            /\ wake'["mqtt"] = now
            /\ mutex' = mutex
            /\ mutex # "mqtt"
    /\ (pc["mqtt"] = "m_check" /\ TimerDue /\ pc'["mqtt"] \notin {"m_check", "panic"}) =>
         /\ pc'["mqtt"] = "p_take"
         /\ xLastPublish' = xTaskGetTickCount(now)
    /\ (pc'["mqtt"] = "m_check" /\ pc["mqtt"] # "m_check") =>
         \/ pc["mqtt"] = "m_top" /\ connected
         \/ pc["mqtt"] \in CommandPcs
    /\ (pc'["mqtt"] = "m_loop" /\ pc["mqtt"] # "m_loop") =>
         /\ pc["mqtt"] = "m_top"
         /\ ~connected
         /\ connected'
    /\ (pc["mqtt"] \in {"p_wait", "p_publish"} /\ pc'["mqtt"] = "m_delay") =>
         /\ xLastPublish' = xLastPublish
         /\ now - xLastPublish < pdMS_TO_TICKS(xPublishFrequencyMs)
    /\ (pc["mqtt"] = "m_delay" /\ pc'["mqtt"] \notin {"m_delay", "panic"}) =>
         /\ pc'["mqtt"] = "m_top"
         /\ xLastPublish' = xLastPublish

C30_TimerRestartedAtCheck == [][C30_Step]_vars

\* The iteration that found the timer due has timed out on the mutex, held
\* by the Acquisition Task, and is in the delay that ends it: nothing was
\* copied or published, and the timer was restarted 100 ms ago.
C30_Witness ==
    /\ pc["mqtt"] = "m_delay"
    /\ mutex = "sensor"
    /\ outbox = <<>>
    /\ localData.timestamp = 0
    /\ currentData.timestamp > 0
    /\ xLastPublish = now - pdMS_TO_TICKS(MutexTimeoutMs)

====
